---------------------------- MODULE Spec2Model ----------------------------
(***************************************************************************)
(* A model of the surface-water flow simulator of                          *)
(* notebooks/1.0-modelling.py (and src/urban_technologies_berlin/model.py):*)
(* the list/matrix conversions, the hydrology primitives, the flow         *)
(* distribution, the grid update and the loop of simulate.                 *)
(*                                                                         *)
(* Numbers are exact rationals <<numerator, denominator>> in lowest terms  *)
(* with a positive denominator; floating-point rounding is not modelled.   *)
(* An ndarray is a record [shape, flat]: its shape and its elements in     *)
(* row-major (C) order, as numpy stores them.                              *)
(***************************************************************************)
EXTENDS Integers, Sequences, FiniteSets, TLC

VARIABLES
    pc,                      \* position of the run being modelled
    data,                    \* SpecGrid: the array handed to a conversion; SpecSim: argument data
    other,                   \* SpecGrid: second argument of updated_water_level
    matrix,                  \* SpecGrid: what list2matrix(data) returned
    list,                    \* SpecGrid: what matrix2list(matrix) returned
    direct,                  \* SpecGrid: what matrix2list(data) returned
    updated,                 \* SpecGrid: what updated_water_level(data, other) returned
    data_as_list,            \* SpecFlow: list-form grid (water, x grad, y grad, sealing)
    tile_size,               \* SpecFlow, SpecSim: edge length of a tile
    timestep,                \* SpecFlow: minutes per timestep
    velocities,              \* SpecFlow, SpecSim: water_flow_velocity(...)
    distances,               \* SpecFlow, SpecSim: water_flow_distance(...)
    water_update,            \* SpecFlow, SpecSim: water_flow(...)
    data_as_matrix,          \* SpecUpdate: first argument of updated_water_level
    water_update_as_matrix,  \* SpecUpdate: second argument of updated_water_level
    new_water_level,         \* SpecUpdate: what updated_water_level returned; SpecSim: its identity
    data_data_frame,         \* SpecSim: the module-level data frame
    rainfall,                \* SpecSim: argument of simulate
    timestep_size,           \* SpecSim: argument of simulate
    iterations,              \* SpecSim: argument of simulate
    iteration,               \* SpecSim: the loop variable index of simulate, -1 before the loop
    data_ndarray,            \* SpecSim: the working grid in list form
    arrays,                  \* SpecSim: the arrays made by the iterations, by identity
    water_levels,            \* SpecSim: the list of the arrays appended so far
    files                    \* SpecSim: the files written so far

vars == <<pc, data, other, matrix, list, direct, updated, data_as_list, tile_size, timestep,
          velocities, distances, water_update, data_as_matrix,
          water_update_as_matrix, new_water_level, data_data_frame, rainfall,
          timestep_size, iterations, iteration, data_ndarray, arrays, water_levels, files>>

vars_grid == <<data, other, matrix, list, direct, updated>>

vars_flow == <<data_as_list, tile_size, timestep, velocities, distances, water_update>>

vars_update == <<data_as_matrix, water_update_as_matrix, new_water_level>>

vars_sim == <<data_data_frame, rainfall, timestep_size, iterations, iteration, data_ndarray,
              arrays, water_levels, files>>

\* the value of a variable that no call has assigned yet
None == [none |-> TRUE]

\* simulate is not part of the run
NoSimulation ==
    /\ data_data_frame = None /\ rainfall = None /\ timestep_size = None
    /\ iterations = None /\ iteration = None /\ data_ndarray = None
    /\ arrays = None /\ water_levels = None /\ files = None

--------------------------------------------------------------------------
(* Exact rational arithmetic, standing for numpy's float arithmetic.       *)

Abs(i) == IF i < 0 THEN -i ELSE i

RECURSIVE GCD(_, _)
GCD(a, b) == IF b = 0 THEN a ELSE GCD(b, a % b)

Rat(n, d) ==
    LET g == GCD(Abs(n), Abs(d))
        s == IF d < 0 THEN -1 ELSE 1
    IN  <<(s * n) \div g, (s * d) \div g>>

Num(i) == <<i, 1>>

Zero == Num(0)

One == Num(1)

RAdd(a, b) == Rat(a[1] * b[2] + b[1] * a[2], a[2] * b[2])

RSub(a, b) == Rat(a[1] * b[2] - b[1] * a[2], a[2] * b[2])

\* a product with 0 is 0 whatever the (finite) other factor is
RMul(a, b) == IF b = Zero \/ a = Zero THEN Zero ELSE Rat(a[1] * b[1], a[2] * b[2])

\* a float division by zero gives inf or nan; no modelled input divides by zero
RDiv(a, b) == Rat(a[1] * b[2], a[2] * b[1])

RLe(a, b) == a[1] * b[2] <= b[1] * a[2]

RLt(a, b) == a[1] * b[2] < b[1] * a[2]

RAbs(a) == <<Abs(a[1]), a[2]>>

RSign(a) == IF a[1] > 0 THEN One ELSE IF a[1] < 0 THEN Num(-1) ELSE Zero

RMax(a, b) == IF RLe(a, b) THEN b ELSE a

RMin(a, b) == IF RLe(a, b) THEN a ELSE b

\* the least r >= from with r^2 >= n, and with r^3 >= n
RECURSIVE SqrtFrom(_, _)
SqrtFrom(from, n) == IF from * from >= n THEN from ELSE SqrtFrom(from + 1, n)

RECURSIVE CbrtFrom(_, _)
CbrtFrom(from, n) == IF from * from * from >= n THEN from ELSE CbrtFrom(from + 1, n)

\* int(np.sqrt(n)) of a natural number
ISqrt(n) == IF SqrtFrom(0, n) * SqrtFrom(0, n) = n THEN SqrtFrom(0, n) ELSE SqrtFrom(0, n) - 1

\* roots of perfect powers, the only values whose root is rational: the
\* inputs of SpecFlow are drawn so that no other root is taken
ExactSqrt(n) == CHOOSE r \in {SqrtFrom(0, n)} : r * r = n

ExactCbrt(n) == CHOOSE r \in {CbrtFrom(0, n)} : r * r * r = n

\* np.sqrt of a non-negative number
RSqrt(a) == <<ExactSqrt(a[1]), ExactSqrt(a[2])>>

\* np.cbrt
RCbrt(a) ==
    IF a[1] < 0 THEN <<-ExactCbrt(-a[1]), ExactCbrt(a[2])>>
    ELSE <<ExactCbrt(a[1]), ExactCbrt(a[2])>>

--------------------------------------------------------------------------
(* ndarrays: shape and row-major elements.                                 *)

RECURSIVE Prod(_)
Prod(s) == IF s = <<>> THEN 1 ELSE Head(s) * Prod(Tail(s))

Array(shape, f(_)) == [shape |-> shape, flat |-> [i \in 1..Prod(shape) |-> f(i - 1)]]

ndim(a) == Len(a.shape)

\* a raised exception, as the value of the call that raised it
ValueError == [error |-> "ValueError"]

IndexError == [error |-> "IndexError"]

IsError(x) == "error" \in DOMAIN x

IsArray(x) == "shape" \in DOMAIN x

\* element (r, c, k) of a 3-dimensional array, 0-based
At3(a, r, c, k) == a.flat[(r * a.shape[2] + c) * a.shape[3] + k + 1]

\* element (r, c) of a 2-dimensional array, 0-based
At2(a, r, c) == a.flat[r * a.shape[2] + c + 1]

\* a[:, index] of a 2-dimensional array: a vector
Column(a, index) == Array(<<a.shape[1]>>, LAMBDA j : At2(a, j, index))

\* a[:, :, index] of a 3-dimensional array: a 2-dimensional array
Plane(a, index) ==
    Array(<<a.shape[1], a.shape[2]>>,
          LAMBDA j : At3(a, j \div a.shape[2], j % a.shape[2], index))

\* v.reshape(shape): the same elements in the same order, or a ValueError
\* when the sizes differ
Reshape(v, shape) ==
    IF Prod(shape) # Prod(v.shape) THEN ValueError
    ELSE [shape |-> shape, flat |-> v.flat]

\* a.flatten()
Flatten(a) == [shape |-> <<Prod(a.shape)>>, flat |-> a.flat]

\* np.stack(dims, axis=2) of 2-dimensional arrays of one shape
StackAxis2(dims) ==
    IF dims = <<>> THEN ValueError
    ELSE LET k == Len(dims)
             s == dims[1].shape
         IN  Array(<<s[1], s[2], k>>, LAMBDA j : dims[(j % k) + 1].flat[(j \div k) + 1])

\* np.stack(dims, axis=1) of vectors of one length
StackAxis1(dims) ==
    IF dims = <<>> THEN ValueError
    ELSE LET k == Len(dims)
             s == dims[1].shape
         IN  Array(<<s[1], k>>, LAMBDA j : dims[(j % k) + 1].flat[(j \div k) + 1])

--------------------------------------------------------------------------
(* Grid representation.                                                    *)

\* list2matrix filling each tile matrix column by column
list2matrix_column_major(d) ==
    IF ndim(d) # 2 \/ ~(\E t \in 0..d.shape[1] : t * t = d.shape[1]) \/ d.shape[2] = 0
    THEN ValueError
    ELSE LET t == ISqrt(d.shape[1])
             k == d.shape[2]
         IN  Array(<<t, t, k>>,
                   LAMBDA j : At2(d, ((j \div k) % t) * t + (j \div (k * t)), j % k))

\* list2matrix keeping the first tiles_per_direction^2 rows of any list
list2matrix_truncating(d) ==
    IF ndim(d) # 2 \/ d.shape[2] = 0 THEN ValueError
    ELSE Array(<<ISqrt(d.shape[1]), ISqrt(d.shape[1]), d.shape[2]>>,
               LAMBDA j : d.flat[j + 1])

list2matrix(d) ==
    IF ndim(d) # 2 THEN ValueError
    ELSE LET tiles_per_direction == ISqrt(d.shape[1])
             dims == [index \in 1..d.shape[2] |->
                         Reshape(Column(d, index - 1),
                                 <<tiles_per_direction, tiles_per_direction>>)]
         IN  IF \E index \in 1..Len(dims) : IsError(dims[index]) THEN ValueError
             ELSE StackAxis2(dims)

\* matrix2list handing back an array that already is in list form
matrix2list_lenient(d) ==
    IF ndim(d) = 2 THEN d
    ELSE IF ndim(d) # 3 THEN ValueError
    ELSE StackAxis1([index \in 1..d.shape[3] |-> Flatten(Plane(d, index - 1))])

matrix2list(d) ==
    IF ndim(d) # 3 THEN ValueError
    ELSE LET dims == [index \in 1..d.shape[3] |-> Flatten(Plane(d, index - 1))]
         IN  StackAxis1(dims)

--------------------------------------------------------------------------
(* Hydrology primitives and flow distribution (list form, one row per     *)
(* tile: water level, x gradient, y gradient, sealing).                    *)

Map1(op(_), a) == Array(a.shape, LAMBDA j : op(a.flat[j + 1]))

Map2(op(_, _), a, b) == Array(a.shape, LAMBDA j : op(a.flat[j + 1], b.flat[j + 1]))

\* water depth of water_in_liter on a tile of tile_square_meter
R(water_in_liter, tile_square_meter) ==
    RDiv(water_in_liter, Num(tile_square_meter * 1000))

\* default of the parameter kst of water_flow_velocity
kst_default == 100

\* water_flow_velocity without restoring the direction of the gradient
water_flow_velocity_absolute(d, tile_square_meter, kst) ==
    Array(<<d.shape[1], 2>>,
          LAMBDA j :
              RMul(RMul(Num(kst),
                        RCbrt(RMul(R(At2(d, j \div 2, 0), tile_square_meter),
                                   R(At2(d, j \div 2, 0), tile_square_meter)))),
                   RSqrt(RAbs(At2(d, j \div 2, 1 + (j % 2))))))

water_flow_velocity(d, tile_square_meter, kst) ==
    Array(<<d.shape[1], 2>>,
          LAMBDA j :
              LET water_in_liter == At2(d, j \div 2, 0)
                  gradient == At2(d, j \div 2, 1 + (j % 2))
                  gradient_direction == RSign(gradient)
                  absolute_gradient == RAbs(gradient)
                  depth == R(water_in_liter, tile_square_meter)
                  result_absolute ==
                      RMul(RMul(Num(kst), RCbrt(RMul(depth, depth))),
                           RSqrt(absolute_gradient))
              IN  RMul(gradient_direction, result_absolute))

water_flow_distance(water_velocities, ts) ==
    LET timestep_seconds == ts * 60
    IN  Map1(LAMBDA v : RMul(v, Num(timestep_seconds)), water_velocities)

\* water_flow dividing by the tile size alone
water_flow_per_tile(water_distances, size) ==
    Map1(LAMBDA x : RDiv(x, Num(size)), water_distances)

water_flow(water_distances, size) ==
    LET water_distance_directions == Map1(RSign, water_distances)
        absolute_water_distances == Map1(RAbs, water_distances)
        sum_distances(j) ==
            RMax(RAdd(At2(absolute_water_distances, j, 0),
                      At2(absolute_water_distances, j, 1)),
                 Num(size))
        fraction_of_water_flow ==
            Array(water_distances.shape,
                  LAMBDA j : RDiv(absolute_water_distances.flat[j + 1],
                                  sum_distances(j \div 2)))
    IN  Map2(RMul, fraction_of_water_flow, water_distance_directions)

--------------------------------------------------------------------------
(* Grid update.                                                            *)

\* index values of updated_water_level
water_level_index == 0

water_flow_x_index == 4

water_flow_y_index == 5

\* np.concatenate((a, b), axis=2) of two 3-dimensional arrays
Concatenate(a, b) ==
    IF a.shape[1] # b.shape[1] \/ a.shape[2] # b.shape[2] THEN ValueError
    ELSE LET ka == a.shape[3]
             k == ka + b.shape[3]
         IN  Array(<<a.shape[1], a.shape[2], k>>,
                   LAMBDA j :
                       LET c == (j \div k) % a.shape[2]
                           r == j \div (k * a.shape[2])
                       IN  IF j % k < ka THEN At3(a, r, c, j % k)
                           ELSE At3(b, r, c, (j % k) - ka))

\* np.roll(a, shift, axis) of a 3-dimensional array, axis 0 or 1
Roll(a, shift, axis) ==
    Array(a.shape,
          LAMBDA j :
              LET k == j % a.shape[3]
                  c == (j \div a.shape[3]) % a.shape[2]
                  r == j \div (a.shape[3] * a.shape[2])
              IN  IF axis = 0 THEN At3(a, (r - shift) % a.shape[1], c, k)
                  ELSE At3(a, r, (c - shift) % a.shape[2], k))

\* a[:, col, :] = 0, col counted from the end when negative
ZeroColumn(a, col) ==
    Array(a.shape,
          LAMBDA j :
              IF (j \div a.shape[3]) % a.shape[2] = col % a.shape[2] THEN Zero
              ELSE a.flat[j + 1])

\* a[row, :, :] = 0, row counted from the end when negative
ZeroRow(a, row) ==
    Array(a.shape,
          LAMBDA j :
              IF j \div (a.shape[3] * a.shape[2]) = row % a.shape[1] THEN Zero
              ELSE a.flat[j + 1])

\* right_shifted without suppressing the column that wrapped around
right_shifted_wrapping(d) == Roll(d, 1, 1)

right_shifted(d) == ZeroColumn(Roll(d, 1, 1), 0)

left_shifted(d) == ZeroColumn(Roll(d, -1, 1), -1)

up_shifted(d) == ZeroRow(Roll(d, -1, 0), -1)

down_shifted(d) == ZeroRow(Roll(d, 1, 0), 0)

\* np.absolute(np.minimum(flow, 0) * level)
AbsMinimum(flow, level) == Map2(LAMBDA f, w : RAbs(RMul(RMin(f, Zero), w)), flow, level)

\* np.absolute(np.maximum(flow, 0) * level)
AbsMaximum(flow, level) == Map2(LAMBDA f, w : RAbs(RMul(RMax(f, Zero), w)), flow, level)

water_flow_from_right(d) ==
    AbsMinimum(Plane(left_shifted(d), water_flow_x_index),
               Plane(left_shifted(d), water_level_index))

water_flow_from_left(d) ==
    AbsMaximum(Plane(right_shifted(d), water_flow_x_index),
               Plane(right_shifted(d), water_level_index))

water_flow_from_above(d) ==
    AbsMinimum(Plane(down_shifted(d), water_flow_x_index),
               Plane(down_shifted(d), water_level_index))

water_flow_from_below(d) ==
    AbsMaximum(Plane(up_shifted(d), water_flow_x_index),
               Plane(up_shifted(d), water_level_index))

no_water_flow(d) ==
    LET x_flow_absolute == Map1(RAbs, Plane(d, water_flow_x_index))
        y_flow_absolute == Map1(RAbs, Plane(d, water_flow_y_index))
    IN  Map2(LAMBDA w, f : RMul(w, RSub(One, f)),
             Plane(d, water_level_index),
             Map2(RAdd, x_flow_absolute, y_flow_absolute))

updated_water_level(dm, wm) ==
    IF ndim(dm) # 3 \/ ndim(wm) # 3 THEN ValueError
    ELSE LET d == Concatenate(dm, wm)
         IN  IF IsError(d) THEN d
             ELSE IF d.shape[1] = 0 \/ d.shape[2] = 0 \/ d.shape[3] <= water_flow_y_index
                  THEN IndexError
             ELSE Map2(RAdd,
                       Map2(RAdd,
                            Map2(RAdd,
                                 Map2(RAdd, water_flow_from_right(d), water_flow_from_left(d)),
                                 water_flow_from_above(d)),
                            water_flow_from_below(d)),
                       no_water_flow(d))

--------------------------------------------------------------------------
(* SpecGrid: the conversions and the rank checks, applied to arrays of     *)
(* every small shape.  The elements of an input are all different          *)
(* (base, base + 1, ...), so that any reordering shows.                    *)

MaxRows == 5

MaxCols == 4

MaxSide == 2

MaxBase == 1

GridShapes ==
    {<<n>> : n \in 0..MaxRows}
    \cup {<<n, k>> : n \in 0..MaxRows, k \in 0..MaxCols}
    \cup {<<a, b, k>> : a \in 0..MaxSide, b \in 0..MaxSide, k \in 0..MaxCols}
    \cup {<<a, b, k, 1>> : a \in 1..MaxSide, b \in 1..MaxSide, k \in 1..MaxCols}

OtherShapes ==
    {<<a * a, 2>> : a \in 1..MaxSide}
    \cup {<<a, a, 2>> : a \in 1..MaxSide}
    \cup {<<a, a, 2, 1>> : a \in 1..MaxSide}

Labelled(shape, base) == Array(shape, LAMBDA j : Num(base + j))

InitGrid ==
    /\ pc = "grid"
    /\ \E shape \in GridShapes, base \in 0..MaxBase : data = Labelled(shape, base)
    /\ \E shape \in OtherShapes : other = Labelled(shape, 0)
    /\ matrix = None
    /\ list = None
    /\ direct = None
    /\ updated = None
    /\ data_as_list = None /\ tile_size = None /\ timestep = None
    /\ velocities = None /\ distances = None /\ water_update = None
    /\ data_as_matrix = None /\ water_update_as_matrix = None
    /\ new_water_level = None
    /\ NoSimulation

\* matrix = list2matrix(data)
Call_list2matrix ==
    /\ pc = "grid"
    /\ matrix = None
    /\ matrix' = list2matrix(data)
    /\ UNCHANGED <<pc, data, other, list, direct, updated, vars_flow, vars_update, vars_sim>>

\* list = matrix2list(matrix), once list2matrix has returned a matrix
Call_roundtrip ==
    /\ pc = "grid"
    /\ IsArray(matrix)
    /\ list = None
    /\ list' = matrix2list(matrix)
    /\ UNCHANGED <<pc, data, other, matrix, direct, updated, vars_flow, vars_update, vars_sim>>

\* direct = matrix2list(data)
Call_matrix2list ==
    /\ pc = "grid"
    /\ direct = None
    /\ direct' = matrix2list(data)
    /\ UNCHANGED <<pc, data, other, matrix, list, updated, vars_flow, vars_update, vars_sim>>

\* updated = updated_water_level(data, other)
Call_updated_water_level ==
    /\ pc = "grid"
    /\ updated = None
    /\ updated' = updated_water_level(data, other)
    /\ UNCHANGED <<pc, data, other, matrix, list, direct, vars_flow, vars_update, vars_sim>>

NextGrid ==
    \/ Call_list2matrix
    \/ Call_roundtrip
    \/ Call_matrix2list
    \/ Call_updated_water_level

SpecGrid == InitGrid /\ [][NextGrid]_vars

IsSquare(n) == \E t \in 0..n : t * t = n

IsList(a) == IsArray(a) /\ ndim(a) = 2

\* C4 as stated: for every list-form array L with a perfect-square number of
\* rows and any number of attribute columns, list2matrix(L) is a matrix and
\* matrix2list of it is L again.
RoundTripAnyColumns ==
    (IsList(data) /\ IsSquare(data.shape[1])) =>
        /\ matrix # None => IsArray(matrix)
        /\ list # None => list = data

\* C4 amended: for every list-form array L with a perfect-square number of
\* rows and at least one attribute column, list2matrix(L) is a matrix and
\* matrix2list of it equals L exactly (same rows, same attribute order).
RoundTrip ==
    (IsList(data) /\ IsSquare(data.shape[1]) /\ data.shape[2] >= 1) =>
        /\ matrix # None => IsArray(matrix)
        /\ list # None => list = data

RoundTripWitness ==
    /\ data.shape = <<4, 2>>
    /\ IsArray(matrix)
    /\ matrix.shape = <<2, 2, 2>>
    /\ list = data

\* C5: list2matrix of a list-form array whose row count is not a perfect
\* square ends in an error and returns no matrix.
NonSquareRejected ==
    (IsList(data) /\ ~IsSquare(data.shape[1]) /\ matrix # None) =>
        (IsError(matrix) /\ list = None)

NonSquareWitness ==
    /\ data.shape = <<3, 2>>
    /\ IsError(matrix)

\* C6: matrix2list of an array that does not have exactly 3 dimensions ends
\* in an error, and so does updated_water_level when either argument is not
\* 3-dimensional.
RankRejected ==
    /\ (direct # None /\ ndim(data) # 3) => IsError(direct)
    /\ (updated # None /\ (ndim(data) # 3 \/ ndim(other) # 3)) => IsError(updated)

RankWitness ==
    /\ ndim(data) = 2
    /\ ndim(other) = 3
    /\ IsError(direct)
    /\ IsError(updated)

--------------------------------------------------------------------------
(* SpecFlow: velocity, distance and flow fraction of every tile of a       *)
(* list-form grid, computed in the order of one iteration of simulate.     *)
(* Water levels are 1000 * a^3 liters, gradients +-(s/100)^2 and tile      *)
(* sizes c^3 meters, so that the cube and square roots are rational.       *)

MaxTiles == 1

MaxDepthRoot == 1

MaxSlopeRoot == 1

MaxTileRoot == 2

MaxTimestep == 2

Slopes ==
    {Rat((IF s < 0 THEN -1 ELSE 1) * s * s, 10000) : s \in (-MaxSlopeRoot)..MaxSlopeRoot}

TileRows ==
    {<<Num(1000 * a * a * a), gx, gy, Zero>> :
        a \in 0..MaxDepthRoot, gx \in Slopes, gy \in Slopes}

\* the list-form array of the given rows
ListForm(rows) == Array(<<Len(rows), 4>>, LAMBDA j : rows[(j \div 4) + 1][(j % 4) + 1])

InitFlow ==
    /\ pc = "flow"
    /\ \E n \in 1..MaxTiles : \E rows \in [1..n -> TileRows] : data_as_list = ListForm(rows)
    /\ \E c \in 1..MaxTileRoot : tile_size = c * c * c
    /\ timestep \in 1..MaxTimestep
    /\ velocities = None
    /\ distances = None
    /\ water_update = None
    /\ data = None /\ other = None /\ matrix = None /\ list = None
    /\ direct = None /\ updated = None
    /\ data_as_matrix = None /\ water_update_as_matrix = None
    /\ new_water_level = None
    /\ NoSimulation

\* velocities = water_flow_velocity(data_ndarray, tile_square_meter)
Velocity ==
    /\ pc = "flow"
    /\ velocities' = water_flow_velocity(data_as_list, tile_size * tile_size, kst_default)
    /\ pc' = "velocity"
    /\ UNCHANGED <<data_as_list, tile_size, timestep, distances, water_update,
                   vars_grid, vars_update, vars_sim>>

\* distances = water_flow_distance(velocities, timestep_size)
Distance ==
    /\ pc = "velocity"
    /\ distances' = water_flow_distance(velocities, timestep)
    /\ pc' = "distance"
    /\ UNCHANGED <<data_as_list, tile_size, timestep, velocities, water_update,
                   vars_grid, vars_update, vars_sim>>

\* water_update = water_flow(distances, tile_size)
Flow ==
    /\ pc = "distance"
    /\ water_update' = water_flow(distances, tile_size)
    /\ pc' = "water_flow"
    /\ UNCHANGED <<data_as_list, tile_size, timestep, velocities, distances,
                   vars_grid, vars_update, vars_sim>>

NextFlow ==
    \/ Velocity
    \/ Distance
    \/ Flow

SpecFlow == InitFlow /\ [][NextFlow]_vars

Tiles(a) == 0..(a.shape[1] - 1)

FlowFractionWitnessClamped ==
    /\ pc = "water_flow"
    /\ \E j \in Tiles(water_update) :
        /\ At2(water_update, j, 0) # Zero
        /\ At2(water_update, j, 1) # Zero
        /\ RLt(RAdd(RAbs(At2(water_update, j, 0)), RAbs(At2(water_update, j, 1))), One)

\* C7 as stated: on each axis the velocity has the sign of the gradient
\* whenever the gradient is nonzero, and is zero whenever the gradient is
\* zero.
SignPreservation ==
    pc = "velocity" =>
        \A j \in Tiles(velocities), axis \in 0..1 :
            RSign(At2(velocities, j, axis)) = RSign(At2(data_as_list, j, 1 + axis))

\* C7 amended: on each axis the velocity has the sign of the gradient
\* whenever the gradient is nonzero and the tile holds water (water level
\* nonzero), and is zero whenever the gradient is zero or the tile is dry.
SignPreservationWet ==
    pc = "velocity" =>
        \A j \in Tiles(velocities), axis \in 0..1 :
            RSign(At2(velocities, j, axis)) =
                IF At2(data_as_list, j, 0) = Zero THEN Zero
                ELSE RSign(At2(data_as_list, j, 1 + axis))

SignPreservationWitness ==
    /\ pc = "velocity"
    /\ \E j \in Tiles(velocities) :
        /\ At2(data_as_list, j, 0) # Zero
        /\ RLt(At2(data_as_list, j, 1), Zero)
        /\ RLt(At2(velocities, j, 0), Zero)
        /\ RLt(Zero, At2(data_as_list, j, 2))
        /\ RLt(Zero, At2(velocities, j, 1))

--------------------------------------------------------------------------
(* SpecUpdate: one call of updated_water_level on a square grid of up to   *)
(* MaxN x MaxN tiles.  At most MaxWet tiles hold water, each a different   *)
(* amount (1 + its position in the list form), with flow fractions         *)
(* i/FlowDen, j/FlowDen such that |i| + |j| <= FlowDen; the other tiles    *)
(* are dry and have no flow.                                               *)

MaxN == 3

MaxWet == 1

FlowDen == 2

Cells(n) == (0..(n - 1)) \X (0..(n - 1))

FlowPairs ==
    {<<Rat(q[1], FlowDen), Rat(q[2], FlowDen)>> :
        q \in {p \in ((-FlowDen)..FlowDen) \X ((-FlowDen)..FlowDen) :
                   Abs(p[1]) + Abs(p[2]) <= FlowDen}}

\* matrix form of the grid: water level, x gradient, y gradient, sealing
GridMatrix(n, tiles) ==
    Array(<<n, n, 4>>,
          LAMBDA j :
              LET cell == <<j \div (4 * n), (j \div 4) % n>>
              IN  CASE j % 4 = 0 -> IF cell \in DOMAIN tiles THEN Num(1 + j \div 4) ELSE Zero
                    [] j % 4 = 1 -> Num(1)
                    [] j % 4 = 2 -> Num(-1)
                    [] OTHER -> Num(50))

\* matrix form of the flow fractions
FlowMatrix(n, tiles) ==
    Array(<<n, n, 2>>,
          LAMBDA j :
              LET cell == <<j \div (2 * n), (j \div 2) % n>>
              IN  IF cell \in DOMAIN tiles THEN tiles[cell][1 + (j % 2)] ELSE Zero)

InitUpdate ==
    /\ pc = "update"
    /\ \E n \in 2..MaxN :
        \E wet \in {w \in SUBSET Cells(n) : Cardinality(w) <= MaxWet} :
            \E tiles \in [wet -> FlowPairs] :
                /\ data_as_matrix = GridMatrix(n, tiles)
                /\ water_update_as_matrix = FlowMatrix(n, tiles)
    /\ new_water_level = None
    /\ data = None /\ other = None /\ matrix = None /\ list = None
    /\ direct = None /\ updated = None
    /\ data_as_list = None /\ tile_size = None /\ timestep = None
    /\ velocities = None /\ distances = None /\ water_update = None
    /\ NoSimulation

\* new_water_level = updated_water_level(data_as_matrix, water_update_as_matrix)
Update ==
    /\ pc = "update"
    /\ new_water_level' = updated_water_level(data_as_matrix, water_update_as_matrix)
    /\ pc' = "updated"
    /\ UNCHANGED <<data_as_matrix, water_update_as_matrix, vars_grid, vars_flow, vars_sim>>

NextUpdate == Update

SpecUpdate == InitUpdate /\ [][NextUpdate]_vars

RECURSIVE Sum(_)
Sum(s) == IF s = <<>> THEN Zero ELSE RAdd(Head(s), Sum(Tail(s)))

\* total water of a 2-dimensional array
Total(a) == Sum(a.flat)

N == data_as_matrix.shape[1]

Level(r, c) == At3(data_as_matrix, r, c, water_level_index)

FlowX(r, c) == At3(water_update_as_matrix, r, c, 0)

FlowY(r, c) == At3(water_update_as_matrix, r, c, 1)

New(r, c) == At2(new_water_level, r, c)

TotalBefore == Total(Plane(data_as_matrix, water_level_index))

OnBoundary(r, c) == r = 0 \/ c = 0 \/ r = N - 1 \/ c = N - 1

\* C1: when all boundary tiles have flow_x = flow_y = 0, the water levels
\* returned by one updated_water_level step sum to the total before the step.
InteriorConservation ==
    (/\ pc = "updated"
     /\ \A cell \in Cells(N) :
            OnBoundary(cell[1], cell[2]) =>
                (FlowX(cell[1], cell[2]) = Zero /\ FlowY(cell[1], cell[2]) = Zero))
    => Total(new_water_level) = TotalBefore

\* C2: one step never creates water: the new water levels sum to at most
\* the total before the step.
NeverCreatesWater ==
    pc = "updated" => RLe(Total(new_water_level), TotalBefore)

\* water of tile (r, c) that the fraction f of it carries to a neighbour;
\* nothing when (r, c) is off the grid
Carried(r, c, f(_, _)) ==
    IF <<r, c>> \in Cells(N) THEN RMul(Level(r, c), f(r, c)) ELSE Zero

Positive(x) == RMax(x, Zero)

Negative(x) == RAbs(RMin(x, Zero))

\* C8: on each axis, water leaving with a positive flow fraction on that
\* axis arrives at the neighbour with the next higher index on that axis,
\* water leaving with a negative one at the neighbour with the next lower
\* index (x along the columns, y along the rows).
DirectionConvention ==
    pc = "updated" =>
        \A cell \in Cells(N) :
            LET r == cell[1]
                c == cell[2]
                kept == RMul(Level(r, c),
                             RSub(One, RAdd(RAbs(FlowX(r, c)), RAbs(FlowY(r, c)))))
            IN  New(r, c) =
                    RAdd(kept,
                    RAdd(Carried(r, c - 1, LAMBDA i, j : Positive(FlowX(i, j))),
                    RAdd(Carried(r, c + 1, LAMBDA i, j : Negative(FlowX(i, j))),
                    RAdd(Carried(r - 1, c, LAMBDA i, j : Positive(FlowY(i, j))),
                         Carried(r + 1, c, LAMBDA i, j : Negative(FlowY(i, j)))))))

\* tile (r, c) has a flow fraction directed off the grid
FlowsOffGrid(r, c) ==
    \/ c = 0 /\ RLt(FlowX(r, c), Zero)
    \/ c = N - 1 /\ RLt(Zero, FlowX(r, c))
    \/ r = 0 /\ RLt(FlowY(r, c), Zero)
    \/ r = N - 1 /\ RLt(Zero, FlowY(r, c))

MovesWater(r, c) ==
    Level(r, c) # Zero /\ (FlowX(r, c) # Zero \/ FlowY(r, c) # Zero)

\* C9: when a boundary tile holding water has a flow fraction directed off
\* the grid and no other tile moves water, the total after the step is
\* strictly less than the total before.
BoundaryLoss ==
    pc = "updated" =>
        \A cell \in Cells(N) :
            (/\ RLt(Zero, Level(cell[1], cell[2]))
             /\ FlowsOffGrid(cell[1], cell[2])
             /\ \A o \in Cells(N) \ {cell} : ~MovesWater(o[1], o[2]))
            => RLt(Total(new_water_level), TotalBefore)

\* the combined record of every tile, as updated_water_level builds it
Combined == Concatenate(data_as_matrix, water_update_as_matrix)

\* the grid with tile (r, c) emptied
Dried(r, c) ==
    Array(data_as_matrix.shape,
          LAMBDA j :
              IF j = (r * N + c) * 4 + water_level_index THEN Zero
              ELSE data_as_matrix.flat[j + 1])

\* the tiles on the opposite edge of the row or column of (r, c) that are
\* not its neighbours
Opposite(r, c) ==
    {o \in Cells(N) :
        \/ o[1] = r /\ Abs(o[2] - c) = N - 1 /\ N > 2
        \/ o[2] = c /\ Abs(o[1] - r) = N - 1 /\ N > 2}

\* C10: an off-grid neighbour contributes exactly 0 inflow, and the new
\* level of a tile on an edge does not depend on the water of the tile on
\* the opposite edge of its row or column.
NoWraparound ==
    pc = "updated" =>
        /\ \A i \in 0..(N - 1) :
            /\ At2(water_flow_from_left(Combined), i, 0) = Zero
            /\ At2(water_flow_from_right(Combined), i, N - 1) = Zero
            /\ At2(water_flow_from_above(Combined), 0, i) = Zero
            /\ At2(water_flow_from_below(Combined), N - 1, i) = Zero
        /\ \A cell \in Cells(N) :
            \A o \in Opposite(cell[1], cell[2]) :
                Level(o[1], o[2]) # Zero =>
                At2(updated_water_level(Dried(o[1], o[2]), water_update_as_matrix),
                    cell[1], cell[2]) = New(cell[1], cell[2])

\* a tile on the last column holds water and pushes it past the edge, and
\* the first tile of its row still receives nothing from the left
NoWraparoundWitness ==
    /\ pc = "updated"
    /\ N = 3
    /\ RLt(Zero, Level(1, 2))
    /\ RLt(Zero, FlowX(1, 2))
    /\ New(1, 0) = Zero


\* the four-neighbour rule for tile (r, c): what the tile keeps, what its
\* left and right neighbours send along x and what the neighbours above and
\* below send along y, each read with a bounds check; along both axes the
\* neighbour with the lower index sends with the sign that the code gives
\* to the flow from the left and from above
ReferenceLevel(r, c) ==
    LET kept == RMul(Level(r, c), RSub(One, RAdd(RAbs(FlowX(r, c)), RAbs(FlowY(r, c)))))
        from_left == Carried(r, c - 1, LAMBDA i, j : Positive(FlowX(i, j)))
        from_right == Carried(r, c + 1, LAMBDA i, j : Negative(FlowX(i, j)))
        from_above == Carried(r - 1, c, LAMBDA i, j : Negative(FlowY(i, j)))
        from_below == Carried(r + 1, c, LAMBDA i, j : Positive(FlowY(i, j)))
    IN  RAdd(RAdd(RAdd(RAdd(from_right, from_left), from_above), from_below), kept)

\* C17: updated_water_level is the four-neighbour reference rule: the
\* inflows from the left and the right come from the x flow fraction of
\* those neighbours, the inflows from above and below from their y flow
\* fraction, and a neighbour off the grid sends nothing.
ReferenceRule ==
    pc = "updated" =>
        new_water_level =
            Array(<<N, N>>, LAMBDA j : ReferenceLevel(j \div N, j % N))

--------------------------------------------------------------------------
(* simulate.  A GeoDataFrame is a record: rows, one <<x gradient,          *)
(* y gradient, sealing>> per tile; size, the edge length of its tiles      *)
(* (their geometry); water_level, its column "water level" (None while the *)
(* frame has no such column).                                              *)

\* the edge length of the tiles of a data frame
get_tile_size(frame) == frame.size

\* data["water level"] = values, one value per row
with_water_level(frame, values) ==
    IF Len(values) # Len(frame.rows) THEN ValueError
    ELSE [frame EXCEPT !.water_level = values]

\* data["water level"] = 0: the scalar is given to every row
with_water_level_0(frame) == with_water_level(frame, [i \in 1..Len(frame.rows) |-> Zero])

\* what init_and_get_list_form returns: the columns "water level",
\* "x gradient", "y gradient", "sealing" of the frame it has initialised
init_and_get_list_form(frame) ==
    Array(<<Len(frame.rows), 4>>,
          LAMBDA j : IF j % 4 = 0 THEN with_water_level_0(frame).water_level[(j \div 4) + 1]
                     ELSE frame.rows[(j \div 4) + 1][j % 4])

\* get_infiltration with the infiltration growing with the sealing
get_infiltration_rising(sealing) ==
    RDiv(RAdd(RMul(Rat(26, 96), sealing), Num(34)), Num(100))

get_infiltration(sealing) == RDiv(RAdd(RMul(Rat(-26, 96), sealing), Num(34)), Num(100))

\* water_infiltration giving the infiltrated water instead of the remaining
water_infiltration_absorbed(d) ==
    Array(<<d.shape[1]>>, LAMBDA j : RMul(At2(d, j, 0), get_infiltration(At2(d, j, 3))))

water_infiltration(d) ==
    Array(<<d.shape[1]>>,
          LAMBDA j : RMul(At2(d, j, 0), RSub(One, get_infiltration(At2(d, j, 3)))))

\* a[:, column] = v, v a vector
SetColumn(a, column, v) ==
    IF v.shape # <<a.shape[1]>> THEN ValueError
    ELSE Array(a.shape,
               LAMBDA j : IF j % a.shape[2] = column THEN v.flat[(j \div a.shape[2]) + 1]
                          ELSE a.flat[j + 1])

\* data_ndarray[:, 0] += rainfall, forgetting the area of a tile
add_rainfall_per_tile(d, rain, tile_square_meter) ==
    SetColumn(d, 0, Map1(LAMBDA w : RAdd(w, Num(rain)), Column(d, 0)))

\* data_ndarray[:, 0] += rainfall * tile_square_meter
add_rainfall(d, rain, tile_square_meter) ==
    SetColumn(d, 0, Map1(LAMBDA w : RAdd(w, Num(rain * tile_square_meter)), Column(d, 0)))

\* range(n) counting n in
range_inclusive(n) == 0..n

\* range(n) counting from 1
range_from_one(n) == 1..n

range(n) == 0..(n - 1)

\* the array of a pass written into one buffer shared by all passes
shared_array(i) == 0

\* the identity of the array that updated_water_level(...).flatten() makes
\* in pass i of the loop: a new array each time
new_array(i) == i


--------------------------------------------------------------------------
(* SpecSim: the call simulate(data_data_frame, rainfall, timestep_size,   *)
(* iterations) of the notebook, for any frame and arguments.  The grid has *)
(* 1 to MaxSimSide^2 tiles (2 tiles: not a square), sealed 0 or 96         *)
(* percent.  Where it rains all gradients are 0, and where the gradients   *)
(* are not 0 it does not rain: the product of a cube root with no rational *)
(* value and 0 is then all that is asked of the roots.                     *)
(* SpecCall: any call simulate(data, ...), the module-level name           *)
(* data_data_frame being bound to the frame handed in or to another one.   *)

MaxSimSide == 2

MaxTileSize == 2

MaxRainfall == 1

MaxSimTimestep == 1

MaxIterations == 2

Sealings == {0, 96}

Frame(k, size, first, second, gx, gy) ==
    [rows |-> [i \in 1..k |-> <<gx, gy, Num(IF i % 2 = 1 THEN first ELSE second)>>],
     size |-> size,
     water_level |-> None]

TileCounts == {side * side : side \in 1..MaxSimSide} \cup {2}

\* data_data_frame when it names the very frame that simulate was handed
SameObject == [same |-> "data"]

\* frames that differ from the frame handed to simulate
OtherFrames(frame) ==
    {[frame EXCEPT !.rows = [i \in DOMAIN frame.rows |-> <<Zero, Zero, Num(48)>>]],
     Frame(1, frame.size, 48, 48, Zero, Zero)}

\* the frame that the name data_data_frame stands for
ModuleFrame == IF data_data_frame = SameObject THEN data ELSE data_data_frame

InitArguments ==
    /\ pc = "call"
    /\ rainfall \in 0..MaxRainfall
    /\ timestep_size \in 0..MaxSimTimestep
    /\ iterations \in (-1)..MaxIterations
    /\ \E k \in TileCounts, size \in 1..MaxTileSize, first \in Sealings, second \in Sealings,
          gx \in Slopes :
           /\ rainfall = 0 \/ gx = Zero
           /\ data = Frame(k, size, first, second, gx, RSub(Zero, gx))
    /\ iteration = -1 /\ data_ndarray = None /\ arrays = None
    /\ water_levels = None /\ files = None
    /\ tile_size = None /\ velocities = None /\ distances = None
    /\ water_update = None /\ new_water_level = None
    /\ other = None /\ matrix = None /\ list = None /\ direct = None /\ updated = None
    /\ data_as_list = None /\ timestep = None
    /\ data_as_matrix = None /\ water_update_as_matrix = None

InitSim ==
    /\ InitArguments
    /\ data_data_frame = SameObject

InitCall ==
    /\ InitArguments
    /\ data_data_frame \in {SameObject} \cup OtherFrames(data)

vars_idle == <<other, matrix, list, direct, updated, data_as_list, timestep,
               data_as_matrix, water_update_as_matrix>>

vars_args == <<rainfall, timestep_size, iterations>>

\* simulate up to its loop: the tile size, the empty list and the working grid
Initialize ==
    /\ pc = "call"
    /\ tile_size' = get_tile_size(data)
    /\ water_levels' = <<>>
    /\ arrays' = <<>>
    /\ files' = <<>>
    /\ data_ndarray' = init_and_get_list_form(ModuleFrame)
    /\ IF data_data_frame = SameObject
       THEN data' = with_water_level_0(data) /\ UNCHANGED data_data_frame
       ELSE data_data_frame' = with_water_level_0(data_data_frame) /\ UNCHANGED data
    /\ pc' = "for"
    /\ UNCHANGED <<iteration, velocities, distances, water_update, new_water_level,
                   vars_args, vars_idle>>

\* for index in range(iterations): the next pass, when there is one
For ==
    /\ pc = "for"
    /\ iteration + 1 \in range(iterations)
    /\ iteration' = iteration + 1
    /\ pc' = "rainfall"
    /\ UNCHANGED <<data, data_data_frame, tile_size, water_levels, arrays, files,
                   data_ndarray, velocities, distances, water_update, new_water_level,
                   vars_args, vars_idle>>

\* the loop is exhausted: simulate returns
Return ==
    /\ pc = "for"
    /\ iteration + 1 \notin range(iterations)
    /\ pc' = "done"
    /\ UNCHANGED <<data, data_data_frame, tile_size, water_levels, arrays, files, iteration,
                   data_ndarray, velocities, distances, water_update, new_water_level,
                   vars_args, vars_idle>>

\* add rainfall
AddRainfall ==
    /\ pc = "rainfall"
    /\ data_ndarray' = add_rainfall(data_ndarray, rainfall, tile_size * tile_size)
    /\ pc' = "infiltration"
    /\ UNCHANGED <<data, data_data_frame, tile_size, water_levels, arrays, files, iteration,
                   velocities, distances, water_update, new_water_level,
                   vars_args, vars_idle>>

\* infiltration of water
Infiltrate ==
    /\ pc = "infiltration"
    /\ data_ndarray' = SetColumn(data_ndarray, 0, water_infiltration(data_ndarray))
    /\ pc' = "movement"
    /\ UNCHANGED <<data, data_data_frame, tile_size, water_levels, arrays, files, iteration,
                   velocities, distances, water_update, new_water_level,
                   vars_args, vars_idle>>

\* water movement for each tile
WaterMovement ==
    /\ pc = "movement"
    /\ velocities' = water_flow_velocity(data_ndarray, tile_size * tile_size, kst_default)
    /\ distances' = water_flow_distance(velocities', timestep_size)
    /\ water_update' = water_flow(distances', tile_size)
    /\ pc' = "update"
    /\ UNCHANGED <<data, data_data_frame, tile_size, water_levels, arrays, files, iteration,
                   data_ndarray, new_water_level, vars_args, vars_idle>>

\* update the water levels; an exception of list2matrix or of
\* updated_water_level ends simulate
UpdateLevels ==
    /\ pc = "update"
    /\ LET grid == list2matrix(data_ndarray)
           flow == list2matrix(water_update)
           result == IF IsError(grid) THEN grid
                     ELSE IF IsError(flow) THEN flow
                     ELSE updated_water_level(grid, flow)
       IN  IF IsError(result)
           THEN /\ pc' = "error"
                /\ UNCHANGED <<new_water_level, arrays, data_ndarray>>
           ELSE /\ new_water_level' = new_array(iteration)
                /\ arrays' = (new_array(iteration) :> Flatten(result)) @@ arrays
                /\ data_ndarray' = SetColumn(data_ndarray, 0, Flatten(result))
                /\ pc' = "save"
    /\ UNCHANGED <<data, data_data_frame, tile_size, water_levels, files, iteration,
                   velocities, distances, water_update, vars_args, vars_idle>>

\* save the simulation result: the column of data, the file of this step
\* and the list of water levels
Save ==
    /\ pc = "save"
    /\ LET written == with_water_level(data, arrays[new_water_level].flat)
       IN  IF IsError(written)
           THEN /\ pc' = "error"
                /\ UNCHANGED <<data, files, water_levels>>
           ELSE /\ data' = written
                /\ files' = Append(files, [step |-> iteration,
                                           water_level |-> written.water_level])
                /\ water_levels' = Append(water_levels, new_water_level)
                /\ pc' = "for"
    /\ UNCHANGED <<data_data_frame, tile_size, arrays, iteration, data_ndarray,
                   velocities, distances, water_update, new_water_level,
                   vars_args, vars_idle>>

\* one pass of the loop, step by step
NextLoop ==
    \/ For
    \/ AddRainfall
    \/ Infiltrate
    \/ WaterMovement
    \/ UpdateLevels
    \/ Save
    \/ Return

NextSim ==
    \/ Initialize
    \/ NextLoop

SpecSim == InitSim /\ [][NextSim]_vars

SpecCall == InitCall /\ [][NextSim]_vars

\* the tiles of the working grid, and their columns
SimTiles == 1..data_ndarray.shape[1]

SimLevel(i) == At2(data_ndarray, i - 1, 0)

SimSealing(i) == At2(data_ndarray, i - 1, 3)

\* the water levels that pass k of the loop appended, k = 0, 1, ...
Snapshot(k) == arrays[water_levels[k + 1]].flat

ZeroGradients ==
    \A i \in SimTiles : At2(data_ndarray, i - 1, 1) = Zero /\ At2(data_ndarray, i - 1, 2) = Zero

\* 1 - (-26/96 * sealing + 34) / 100, over the common denominator 9600
Remaining(sealing) == Rat(6336 * sealing[2] + 26 * sealing[1], 9600 * sealing[2])

\* a pass of the loop has just been completed
PassDone == pc = "for" /\ iteration >= 0

\* C11: when every gradient is 0, a pass of the loop moves no water (all
\* flow fractions are 0) and leaves every tile with (previous water level
\* + rainfall * tile_square_meter) * (1 - infiltration fraction of its
\* sealing); on the 2 x 2 grid with sealing 0, rainfall 1 and tiles of
\* 4 square meters the first pass leaves 2.64 everywhere.
ZeroGradientIteration ==
    (PassDone /\ ZeroGradients) =>
        /\ \A j \in 1..Len(water_update.flat) : water_update.flat[j] = Zero
        /\ \A i \in SimTiles :
               LET previous == IF iteration = 0 THEN Zero ELSE Snapshot(iteration - 1)[i]
               IN  SimLevel(i) = RMul(RAdd(previous, Num(rainfall * tile_size * tile_size)),
                                      Remaining(SimSealing(i)))
        /\ (/\ iteration = 0 /\ rainfall = 1 /\ tile_size = 2
            /\ data_ndarray.shape[1] = 4
            /\ \A i \in SimTiles : SimSealing(i) = Zero)
              => \A i \in SimTiles : SimLevel(i) = Rat(264, 100)

ZeroGradientWitness ==
    /\ PassDone /\ ZeroGradients
    /\ iteration = 0 /\ rainfall = 1 /\ tile_size = 2
    /\ data_ndarray.shape[1] = 4
    /\ \A i \in SimTiles : SimSealing(i) = Zero /\ Snapshot(0)[i] = Rat(264, 100)

\* the grid of the run is square
IsSquareRun == \E t \in 0..Len(data.rows) : t * t = Len(data.rows)

\* C13 (as stated): simulate called with iterations <= 0 or
\* timestep_size <= 0 is rejected before the loop starts: it ends in an
\* error, no pass runs and nothing is emitted.
ParametersRejected ==
    (pc \in {"call", "for", "rainfall", "infiltration", "movement", "update", "save",
             "done", "error"}
     /\ (iterations <= 0 \/ timestep_size <= 0))
        => /\ pc \in {"call", "error"}
           /\ iteration = -1

\* C13 (amended): no run parameter is rejected.  With iterations <= 0
\* simulate runs no pass, emits nothing and returns without an error; with
\* timestep_size <= 0 and iterations > 0 a run on a square grid is not
\* stopped either and has emitted one snapshot per pass when it returns.
ParametersNotChecked ==
    /\ (pc \in {"for", "rainfall", "infiltration", "movement", "update", "save",
                "done", "error"}
        /\ iterations <= 0)
          => /\ pc \in {"for", "done"}
             /\ iteration = -1
             /\ water_levels = <<>>
             /\ files = <<>>
    /\ (pc \in {"for", "rainfall", "infiltration", "movement", "update", "save",
                "done", "error"}
        /\ timestep_size <= 0 /\ iterations > 0 /\ IsSquareRun)
          => /\ pc # "error"
             /\ pc = "done" => Len(water_levels) = iterations /\ Len(files) = iterations

ParametersNotCheckedWitness ==
    /\ pc = "done"
    /\ iterations <= 0
    /\ timestep_size <= 0
    /\ iteration = -1
    /\ files = <<>>

\* the water level of tile i after pass k of a run that moves no water
RECURSIVE LevelAfter(_, _)
LevelAfter(k, i) ==
    IF k < 0 THEN Zero
    ELSE RMul(RAdd(LevelAfter(k - 1, i), Num(rainfall * tile_size * tile_size)),
              Remaining(SimSealing(i)))

\* the number of passes that simulate was asked for
Passes == IF iterations < 0 THEN 0 ELSE iterations

InLoop == pc \in {"for", "rainfall", "infiltration", "movement", "update", "save", "done"}

\* the passes run one after the other: the list and the files hold one
\* snapshot for each completed pass, snapshot k is what pass k produced
\* from the levels that pass k - 1 left, and simulate returns after exactly
\* `iterations` passes
LoopInvariant ==
    /\ InLoop =>
        /\ iteration < Passes
        /\ Len(water_levels) = (IF pc \in {"for", "done"} THEN iteration + 1 ELSE iteration)
        /\ Len(files) = Len(water_levels)
        /\ \A k \in 0..(Len(water_levels) - 1) :
               /\ files[k + 1].step = k
               /\ files[k + 1].water_level = Snapshot(k)
               /\ \A i \in SimTiles : Snapshot(k)[i] = LevelAfter(k, i)
        /\ (pc = "for" /\ iteration >= 0)
              => \A i \in SimTiles : SimLevel(i) = Snapshot(iteration)[i]
        /\ pc = "done" => Len(water_levels) = Passes
    /\ pc = "error" => ~IsSquareRun

\* how far a run has come: the passes begun and the place in the pass
Progress(at, pass) ==
    6 * (pass + 1) + (CASE at = "call" -> -1
                        [] at = "for" -> 0
                        [] at = "rainfall" -> -5
                        [] at = "infiltration" -> -4
                        [] at = "movement" -> -3
                        [] at = "update" -> -2
                        [] at = "save" -> -1
                        [] OTHER -> 1)

\* C14: the loop runs exactly `iterations` passes in sequence, each from
\* the completed output of the one before, and simulate returns only then
\* (on a grid that is not square it raises instead): every step of a run
\* takes it further, none is repeated, and the output holds exactly one
\* snapshot per pass, snapshot k being the water levels of pass k.
LoopRuns ==
    /\ [](LoopInvariant)
    /\ [][/\ Progress(pc', iteration') > Progress(pc, iteration)
          /\ Progress(pc', iteration') <= 6 * Passes + 1]_vars

LoopRunsWitness ==
    /\ pc = "done"
    /\ iterations = 2
    /\ Len(water_levels) = 2
    /\ \A i \in SimTiles : RLt(Zero, Snapshot(0)[i]) /\ RLt(Snapshot(0)[i], Snapshot(1)[i])

\* C15: once a pass has appended its snapshot, no later step of simulate
\* changes a value of it, in the list or in its file, while the working
\* grid goes on being overwritten in place.
SnapshotsImmutable ==
    [][InLoop =>
          \A k \in 0..(Len(water_levels) - 1) :
              /\ Len(water_levels') > k
              /\ Snapshot(k)' = Snapshot(k)
              /\ files'[k + 1] = files[k + 1]]_vars

SnapshotsImmutableWitness ==
    /\ pc = "for"
    /\ iteration = 1
    /\ \A i \in SimTiles : /\ Snapshot(0)[i] = LevelAfter(0, i)
                           /\ RLt(Zero, Snapshot(0)[i])
                           /\ SimLevel(i) # Snapshot(0)[i]

\* C19: when the loop is entered the working grid consists of the tiles of
\* the frame handed to simulate (their gradients and sealing), each with
\* water level 0, whatever frame the module-level name stands for.
InitializesArgument ==
    (pc = "for" /\ iteration = -1) =>
        /\ data_ndarray.shape = <<Len(data.rows), 4>>
        /\ \A i \in 1..Len(data.rows) :
               /\ At2(data_ndarray, i - 1, 0) = Zero
               /\ \A k \in 1..3 : At2(data_ndarray, i - 1, k) = data.rows[i][k]

--------------------------------------------------------------------------
(* SpecDecay: the loop of simulate entered with a working grid that        *)
(* already holds water (tile i holds 100 * a * i liters), all gradients 0. *)
(* simulate itself starts every run from water level 0 and keeps its       *)
(* rainfall for the whole run, so a run without rainfall never holds       *)
(* water; what the passes of the loop do to standing water shows only from *)
(* such a grid.                                                            *)

MaxStartLevel == 2

\* list form of a frame whose tile i holds level * i liters
Standing(frame, level) ==
    Array(<<Len(frame.rows), 4>>,
          LAMBDA j : IF j % 4 = 0 THEN Num(level * ((j \div 4) + 1))
                     ELSE frame.rows[(j \div 4) + 1][j % 4])

InitDecay ==
    /\ pc = "for"
    /\ rainfall \in 0..MaxRainfall
    /\ timestep_size \in 0..MaxSimTimestep
    /\ iterations \in 1..MaxIterations
    /\ \E side \in 1..MaxSimSide, size \in 1..MaxTileSize, first \in Sealings,
          second \in Sealings, a \in 0..MaxStartLevel :
           LET frame == Frame(side * side, size, first, second, Zero, Zero)
           IN  /\ data = with_water_level_0(frame)
               /\ data_ndarray = Standing(frame, 100 * a)
               /\ tile_size = get_tile_size(frame)
    /\ data_data_frame = SameObject
    /\ iteration = -1 /\ arrays = <<>> /\ water_levels = <<>> /\ files = <<>>
    /\ velocities = None /\ distances = None
    /\ water_update = None /\ new_water_level = None
    /\ other = None /\ matrix = None /\ list = None /\ direct = None /\ updated = None
    /\ data_as_list = None /\ timestep = None
    /\ data_as_matrix = None /\ water_update_as_matrix = None

SpecDecay == InitDecay /\ [][NextLoop]_vars

\* C12: without rainfall, with sealing 0 and all gradients 0, every
\* further pass multiplies the water level of each tile by 0.66: from
\* snapshot to snapshot no level grows, and no level is negative.
Decay ==
    (/\ pc \in {"for", "rainfall", "infiltration", "movement", "update", "save", "done"}
     /\ rainfall = 0
     /\ ZeroGradients
     /\ \A i \in SimTiles : SimSealing(i) = Zero)
        => \A k \in 0..(Len(water_levels) - 1) : \A i \in SimTiles :
               /\ RLe(Zero, Snapshot(k)[i])
               /\ k > 0 => /\ Snapshot(k)[i] = RMul(Rat(66, 100), Snapshot(k - 1)[i])
                           /\ RLe(Snapshot(k)[i], Snapshot(k - 1)[i])

DecayWitness ==
    /\ pc = "done"
    /\ rainfall = 0
    /\ ZeroGradients
    /\ \A i \in SimTiles : SimSealing(i) = Zero
    /\ Len(water_levels) = 2
    /\ \A i \in SimTiles : RLt(Zero, Snapshot(1)[i]) /\ RLt(Snapshot(1)[i], Snapshot(0)[i])

--------------------------------------------------------------------------
(* SpecInfiltration: the infiltration step of the loop on grids of up to   *)
(* MaxInfTiles tiles that hold 0 to MaxHectoliters * 100 liters and are    *)
(* sealed 0, 4, 8, ... percent.                                            *)

MaxInfTiles == 1

MaxHectoliters == 2

MaxSealingStep == 25

InfiltrationRows ==
    {<<Num(100 * l), Zero, Zero, Num(4 * j)>> : l \in 0..MaxHectoliters, j \in 0..MaxSealingStep}

InitInfiltration ==
    /\ pc = "infiltration"
    /\ \E n \in 1..MaxInfTiles : \E rows \in [1..n -> InfiltrationRows] :
           /\ data_ndarray = ListForm(rows)
           /\ data = with_water_level_0(
                         [rows |-> [i \in 1..n |-> <<rows[i][2], rows[i][3], rows[i][4]>>],
                          size |-> 1,
                          water_level |-> None])
    /\ data_data_frame = SameObject
    /\ rainfall = 0 /\ timestep_size = 1 /\ iterations = 1 /\ iteration = 0
    /\ tile_size = 1
    /\ arrays = <<>> /\ water_levels = <<>> /\ files = <<>>
    /\ velocities = None /\ distances = None
    /\ water_update = None /\ new_water_level = None
    /\ other = None /\ matrix = None /\ list = None /\ direct = None /\ updated = None
    /\ data_as_list = None /\ timestep = None
    /\ data_as_matrix = None /\ water_update_as_matrix = None

NextInfiltration == Infiltrate

SpecInfiltration == InitInfiltration /\ [][NextInfiltration]_vars

\* (-26/96 * sealing + 34) / 100 over the common denominator 9600
LinearFraction(sealing) == Rat(3264 * sealing[2] - 26 * sealing[1], 9600 * sealing[2])

\* C16: the infiltration fraction is (-26/96 * sealing + 34) / 100, which
\* is 0.34 at sealing 0 and 0.08 at sealing 96, and water_infiltration
\* leaves water level * (1 - fraction) in every tile (and nothing else of
\* the tile changes).
InfiltrationLinear ==
    /\ [](/\ get_infiltration(Num(0)) = Rat(34, 100)
          /\ get_infiltration(Num(96)) = Rat(8, 100)
          /\ \A i \in SimTiles : get_infiltration(SimSealing(i)) = LinearFraction(SimSealing(i)))
    /\ [][pc = "infiltration" =>
              \A i \in SimTiles :
                  /\ SimLevel(i)' = RMul(SimLevel(i), RSub(One, LinearFraction(SimSealing(i))))
                  /\ \A k \in 1..3 : At2(data_ndarray', i - 1, k) = At2(data_ndarray, i - 1, k)]_vars

InfiltrationLinearWitness ==
    /\ pc = "movement"
    /\ SimSealing(1) = Num(96)
    /\ SimLevel(1) = Num(92)

--------------------------------------------------------------------------
(* SpecWet: one pass of the loop of simulate over a working grid that      *)
(* holds water and has gradients, so that water moves between the tiles.   *)
(* The water of a tile before the pass is such that the rainfall and the   *)
(* infiltration leave 1000 * tile_square_meter * root^3 liters in it: the  *)
(* cube root that water_flow_velocity takes then has a rational value.  A  *)
(* dry tile (root 0) is rained on only where the gradients are 0.          *)

MaxWetRoot == 1

WetSides == {1, 2}

\* the level of a tile before the pass
LevelBefore(root, sealing, rain, tile_square_meter) ==
    IF root = 0 THEN Zero
    ELSE RSub(RDiv(Num(1000 * tile_square_meter * root * root * root),
                   RSub(One, get_infiltration(Num(sealing)))),
              Num(rain * tile_square_meter))

\* list form of a frame whose odd tiles have the root first and whose even
\* tiles have the root second
Wet(frame, first, second, rain) ==
    Array(<<Len(frame.rows), 4>>,
          LAMBDA j : IF j % 4 = 0
                     THEN LevelBefore(IF (j \div 4) % 2 = 0 THEN first ELSE second,
                                      frame.rows[(j \div 4) + 1][3][1],
                                      rain, frame.size * frame.size)
                     ELSE frame.rows[(j \div 4) + 1][j % 4])

InitWet ==
    /\ pc = "for"
    /\ rainfall \in 0..MaxRainfall
    /\ timestep_size \in 0..MaxSimTimestep
    /\ iterations = 1
    /\ \E side \in WetSides, size \in 1..MaxTileSize, first \in Sealings,
          second \in Sealings, gx \in Slopes, gy \in Slopes,
          a \in 0..MaxWetRoot, b \in 0..MaxWetRoot :
           LET frame == Frame(side * side, size, first, second, gx, gy)
           IN  /\ (rainfall > 0 /\ (a = 0 \/ b = 0)) => (gx = Zero /\ gy = Zero)
               /\ data = with_water_level_0(frame)
               /\ data_ndarray = Wet(frame, a, b, rainfall)
               /\ tile_size = get_tile_size(frame)
    /\ data_data_frame = SameObject
    /\ iteration = -1 /\ arrays = <<>> /\ water_levels = <<>> /\ files = <<>>
    /\ velocities = None /\ distances = None
    /\ water_update = None /\ new_water_level = None
    /\ other = None /\ matrix = None /\ list = None /\ direct = None /\ updated = None
    /\ data_as_list = None /\ timestep = None
    /\ data_as_matrix = None /\ water_update_as_matrix = None

SpecWet == InitWet /\ [][NextLoop]_vars

\* every tile of the working grid holds 0 liters or more
LevelsNonNegative == \A i \in SimTiles : RLe(Zero, SimLevel(i))

==========================================================================
